---- MODULE Spec2Model ----
(***************************************************************************)
(* Model of src/main.py of gdoc2office-bot: a Telegram bot that extracts   *)
(* Google Docs/Sheets identifiers from a message, exports each file        *)
(* through the Drive API and replies with the file or an error message.    *)
(*                                                                         *)
(* Texts are sequences of one-character strings, so that the regular       *)
(* expressions of extract_file_ids and str.strip() are computed character  *)
(* by character.                                                           *)
(***************************************************************************)
EXTENDS Integers, Sequences, FiniteSets, TLC

VARIABLES
    allowed_user_id, \* os.environ["ALLOWED_USER_ID"] ("" when unset)
    pc,            \* per update: where its handler is
    upd,           \* per update: the update as routed to its handler, until the
                   \* handler has read it
    text,          \* per update: the local text of handle_text
    file_ids,           \* per update: file_ids of handle_text
    idx,           \* per update: the index in file_ids of the for loop
    th,            \* per update and reference: the worker thread of its export
    replies,       \* per update: the messages sent to its chat, in order
    drive_service, \* the global _drive_service (0: None, else the handle built)
    builds,        \* number of Drive service handles built so far
    xtext,         \* SpecExtract: the argument text of extract_file_ids
    extracted,      \* SpecExtract: its return value
    xpc,           \* SpecExtract: "call" before the call, "ret" after it
    err,           \* SpecClassify: the HttpError handed to describe_http_error
    described,     \* SpecClassify: what it returned or raised
    cpc            \* SpecClassify: "call" before the call, "ret" after it

mainVars == <<allowed_user_id, pc, upd, text, file_ids, idx, th, replies,
              drive_service, builds>>

pureVars == <<xtext, extracted, xpc, err, described, cpc>>

vars == <<mainVars, pureVars>>

(***************************************************************************)
(* Bounds                                                                  *)
(***************************************************************************)
\* Number of fragments a text of SpecExtract is put together from.
MaxFrags == 3

\* Number of updates handled concurrently.
MaxUpdates == 2

\* Number of times next_chunk() reports that the download is not complete.
MaxChunks == 1

(***************************************************************************)
(* Characters and texts                                                    *)
(***************************************************************************)
\* The character class [a-zA-Z0-9_-] of the four patterns.
IdChars ==
    {"a","b","c","d","e","f","g","h","i","j","k","l","m","n","o","p","q","r",
     "s","t","u","v","w","x","y","z","A","B","C","D","E","F","G","H","I","J",
     "K","L","M","N","O","P","Q","R","S","T","U","V","W","X","Y","Z","0","1",
     "2","3","4","5","6","7","8","9","_","-"}

\* Characters str.strip() removes (the model's texts use the blank only).
Whitespace == {" "}

\* A literal piece of a pattern: one singleton character set per character.
Lit(s) == [k \in 1..Len(s) |-> {s[k]}]

\* The four patterns of extract_file_ids, in the order of the list; each is
\* the part before the capturing group ([a-zA-Z0-9_-]+), as a sequence of
\* character sets.
DocPattern   == Lit(<<"/","d","o","c","u","m","e","n","t","/","d","/">>)
SheetPattern == Lit(<<"/","s","p","r","e","a","d","s","h","e","e","t","s","/","d","/">>)
FilePattern  == Lit(<<"/","f","i","l","e","/","d","/">>)
IdPattern    == <<{"?", "&"}>> \o Lit(<<"i","d","=">>)

patterns == <<DocPattern, SheetPattern, FilePattern, IdPattern>>

\* Whether the literal part p of a pattern matches s at position i and is
\* followed by at least one character of the group.
MatchesAt(p, s, i) ==
    /\ i + Len(p) <= Len(s)
    /\ \A k \in 1..Len(p) : s[i + k - 1] \in p[k]
    /\ s[i + Len(p)] \in IdChars

\* The last position of the maximal run of group characters starting at i.
RECURSIVE RunEnd(_, _)
RunEnd(s, i) ==
    IF i < Len(s) /\ s[i + 1] \in IdChars THEN RunEnd(s, i + 1) ELSE i

\* re.findall(p, s) from position i on: the captured groups of the
\* non-overlapping matches, scanning from left to right; the group is greedy.
RECURSIVE FindAllFrom(_, _, _)
FindAllFrom(p, s, i) ==
    IF i > Len(s) THEN <<>>
    ELSE IF MatchesAt(p, s, i)
         THEN LET b == i + Len(p)
                  e == RunEnd(s, b)
              IN  <<SubSeq(s, b, e)>> \o FindAllFrom(p, s, e + 1)
         ELSE FindAllFrom(p, s, i + 1)

FindAll(p, s) == FindAllFrom(p, s, 1)

\* The first loop of extract_file_ids: ids += re.findall(p, text) for each
\* pattern of the list ps, from pattern k on.
RECURSIVE CollectFrom(_, _, _)
CollectFrom(ps, s, k) ==
    IF k > Len(ps) THEN <<>>
    ELSE FindAll(ps[k], s) \o CollectFrom(ps, s, k + 1)

\* The second loop of extract_file_ids, without its test: every match is kept.
RECURSIVE KeepAll(_, _, _, _)
KeepAll(ids, k, seen, out) ==
    IF k > Len(ids) THEN out
    ELSE KeepAll(ids, k + 1, seen \cup {ids[k]}, Append(out, ids[k]))

\* The second loop of extract_file_ids: x is appended to out and added to seen
\* when it is not in seen yet.
RECURSIVE FirstOccurrences(_, _, _, _)
FirstOccurrences(ids, k, seen, out) ==
    IF k > Len(ids) THEN out
    ELSE IF ids[k] \notin seen
         THEN FirstOccurrences(ids, k + 1, seen \cup {ids[k]}, Append(out, ids[k]))
         ELSE FirstOccurrences(ids, k + 1, seen, out)

extract_file_ids(s) ==
    FirstOccurrences(CollectFrom(patterns, s, 1), 1, {}, <<>>)

\* str.strip(): the text without its leading and trailing whitespace.
RECURSIVE LStrip(_)
LStrip(s) ==
    IF s # <<>> /\ Head(s) \in Whitespace THEN LStrip(Tail(s)) ELSE s

RECURSIVE RStrip(_)
RStrip(s) ==
    IF s # <<>> /\ s[Len(s)] \in Whitespace
    THEN RStrip(SubSeq(s, 1, Len(s) - 1))
    ELSE s

Strip(s) == RStrip(LStrip(s))

(***************************************************************************)
(* Error classification: parse_http_error_reason and describe_http_error   *)
(***************************************************************************)
\* Python values the classifier handles: None, a str, or a value of another
\* JSON type (a list where a string is expected).
PyNone   == [t |-> "NoneType", v |-> ""]
PyStr(x) == [t |-> "str", v |-> x]
PyList   == [t |-> "list", v |-> ""]
\* A local variable that is not assigned yet.
Unset    == [t |-> "unset", v |-> ""]

\* A user-visible text; detail is the part an f-string puts into it.
Msg(s) == [body |-> s, detail |-> ""]

MsgNotShared    == Msg("Access restricted. The file is not shared with the service account.")
MsgAppNotAuth   == Msg("The app is not authorized for the file. The service account needs access.")
MsgNoDownload   == Msg("Download forbidden. The owner disabled export.")
MsgTooLarge     == Msg("The file is too large to export.")
MsgAbusive      == Msg("Google blocked the download of the file as potentially unsafe.")
MsgTooMany      == Msg("Too many requests. Try later.")
MsgSharingLimit == Msg("Sharing limit exceeded. Try later.")
MsgQuota        == Msg("Google Drive quota exceeded. Try later.")
MsgNotFound     == Msg("No document found by the link. Check the link and the access.")
MsgNoAccess     == Msg("No access to Google Drive. Check the service account.")
MsgUnavailable  == Msg("Google Drive is temporarily unavailable. Try later.")
MsgRestricted   == Msg("Access restricted or forbidden. Check the permissions.")
MsgDriveFailed  == Msg("Google Drive error while processing the file.")
MsgDriveError(m) == [body |-> "Google Drive error: ", detail |-> m]

\* reason_map without its exportSizeLimitExceeded entry.
reason_map_short ==
    ("insufficientPermissions" :> MsgNotShared)
    @@ ("insufficientFilePermissions" :> MsgNotShared)
    @@ ("appNotAuthorizedToFile" :> MsgAppNotAuth)
    @@ ("downloadFileRestricted" :> MsgNoDownload)
    @@ ("fileNotDownloadable" :> MsgNoDownload)
    @@ ("cannotDownloadAbusiveFile" :> MsgAbusive)
    @@ ("userRateLimitExceeded" :> MsgTooMany)
    @@ ("rateLimitExceeded" :> MsgTooMany)
    @@ ("sharingRateLimitExceeded" :> MsgSharingLimit)
    @@ ("quotaExceeded" :> MsgQuota)

reason_map ==
    ("insufficientPermissions" :> MsgNotShared)
    @@ ("insufficientFilePermissions" :> MsgNotShared)
    @@ ("appNotAuthorizedToFile" :> MsgAppNotAuth)
    @@ ("downloadFileRestricted" :> MsgNoDownload)
    @@ ("fileNotDownloadable" :> MsgNoDownload)
    @@ ("exportSizeLimitExceeded" :> MsgTooLarge)
    @@ ("cannotDownloadAbusiveFile" :> MsgAbusive)
    @@ ("userRateLimitExceeded" :> MsgTooMany)
    @@ ("rateLimitExceeded" :> MsgTooMany)
    @@ ("sharingRateLimitExceeded" :> MsgSharingLimit)
    @@ ("quotaExceeded" :> MsgQuota)

\* The body of an HttpError (err.content).  raw: "None" (no content), "empty"
\* (b""), "invalid" (bytes that are no JSON) or "json"; for "json", payload is
\* the decoded value: its JSON type t, the value under "error" (type t, or
\* "absent" when the key is missing), in it the value under "message" and the
\* value under "errors" (type t, its length n, the type of its first element
\* and that element's "reason").
NoFirst  == [t |-> "absent", reason |-> PyNone]
NoErrors == [t |-> "absent", n |-> 0, first |-> NoFirst]
NoError  == [t |-> "absent", message |-> PyNone, errors |-> NoErrors]

JsonOther(ty)     == [t |-> ty, error |-> NoError]
JsonObject(e)     == [t |-> "object", error |-> e]
ErrorOther(ty)    == [t |-> ty, message |-> PyNone, errors |-> NoErrors]
ErrorObject(m, l) == [t |-> "object", message |-> m, errors |-> l]
ErrorsOther(ty)   == [t |-> ty, n |-> 0, first |-> NoFirst]
ErrorsEmpty       == [t |-> "array", n |-> 0, first |-> NoFirst]
ErrorsList(f)     == [t |-> "array", n |-> 1, first |-> f]
FirstOther(ty)    == [t |-> ty, reason |-> PyNone]
FirstObject(r)    == [t |-> "object", reason |-> r]

Content(raw, payload) == [raw |-> raw, payload |-> payload]

HttpError(status, content) == [status |-> status, content |-> content]

\* What a function returns or raises: exc is "" for a normal return.
Parsed(reason, message) == [exc |-> "", reason |-> reason, message |-> message]
ParseRaised(e)          == [exc |-> e, reason |-> PyNone, message |-> PyNone]

\* bool(errors) and isinstance(errors, list), for the value under "errors".
NonEmptyList(l) == l.t = "array" /\ l.n > 0

parse_http_error_reason(e) ==
    LET c == e.content IN
    \* if not content: return None, None
    IF c.raw \in {"None", "empty"} THEN Parsed(PyNone, PyNone)
    \* json.loads raises ValueError, which is caught
    ELSE IF c.raw = "invalid" THEN Parsed(PyNone, PyNone)
    \* payload.get("error", {}): only a dict has .get
    ELSE IF c.payload.t # "object" THEN ParseRaised("AttributeError")
    ELSE LET error == IF c.payload.error.t = "absent"
                      THEN ErrorObject(PyNone, NoErrors)
                      ELSE c.payload.error
         IN
         \* error.get("message")
         IF error.t # "object" THEN ParseRaised("AttributeError")
         ELSE IF NonEmptyList(error.errors)
              \* errors[0].get("reason")
              THEN IF error.errors.first.t # "object"
                   THEN ParseRaised("AttributeError")
                   ELSE Parsed(error.errors.first.reason, error.message)
              ELSE Parsed(PyNone, error.message)

Described(m)      == [exc |-> "", msg |-> m]
DescribeRaised(e) == [exc |-> e, msg |-> Msg("")]

\* The status/reason cascade of describe_http_error, given the parsed reason
\* and message.
describe_status(status, reason, message) ==
    IF status = 404 THEN Described(MsgNotFound)
    ELSE IF status = 401 THEN Described(MsgNoAccess)
    ELSE IF status = 429 THEN Described(MsgTooMany)
    ELSE IF status \in {500, 502, 503, 504} THEN Described(MsgUnavailable)
    \* reason in reason_map hashes reason: a list or dict raises TypeError
    ELSE IF status \in {403, 400} /\ reason.t = "list" THEN DescribeRaised("TypeError")
    ELSE IF status = 403
         THEN IF reason.t = "str" /\ reason.v \in DOMAIN reason_map
              THEN Described(reason_map[reason.v])
              ELSE Described(MsgRestricted)
    ELSE IF status = 400 /\ reason.t = "str" /\ reason.v \in DOMAIN reason_map
         THEN Described(reason_map[reason.v])
    ELSE IF message.t = "str" /\ message.v # ""
         THEN Described(MsgDriveError(message.v))
         ELSE Described(MsgDriveFailed)

describe_http_error(e) ==
    LET p == parse_http_error_reason(e) IN
    IF p.exc # "" THEN DescribeRaised(p.exc)
    ELSE describe_status(e.status, p.reason, p.message)

NoHttpError == HttpError(0, Content("None", JsonOther("null")))

(***************************************************************************)
(* Fragments of texts                                                      *)
(***************************************************************************)
FragDocA       == <<"/","d","o","c","u","m","e","n","t","/","d","/","A">>
FragDocB       == <<"/","d","o","c","u","m","e","n","t","/","d","/","B">>
FragSheetA     == <<"/","s","p","r","e","a","d","s","h","e","e","t","s","/","d","/","A">>
FragFileA      == <<"/","f","i","l","e","/","d","/","A">>
FragFilePrefix == <<"/","f","i","l","e","/","d","/">>
FragIdA        == <<"?","i","d","=","A">>
FragIdB        == <<"&","i","d","=","B">>
FragKey        == <<"&","r","e","s","o","u","r","c","e","k","e","y","=","K">>
FragEdit       == <<"/","e","d","i","t">>
FragB          == <<"B">>
FragSpace      == <<" ">>

\* The variables of SpecExtract and SpecClassify, which Spec leaves alone.
PureIdle ==
    /\ xtext = <<>>
    /\ extracted = <<>>
    /\ xpc = "off"
    /\ err = <<>>
    /\ described = <<>>
    /\ cpc = "off"

(***************************************************************************)
(* Export: get_drive_service, export_google_file                           *)
(***************************************************************************)
GOOGLE_DOC_MIME   == "application/vnd.google-apps.document"
GOOGLE_SHEET_MIME == "application/vnd.google-apps.spreadsheet"
DOCX_MIME == "application/vnd.openxmlformats-officedocument.wordprocessingml.document"
XLSX_MIME == "application/vnd.openxmlformats-officedocument.spreadsheetml.sheet"

Format(ok, mime, ext) == [ok |-> ok, export_mime |-> mime, ext |-> ext]

\* The if/elif/else of export_google_file with an else branch that exports
\* every other type as a document.
export_format_any(mime) ==
    IF mime = PyStr(GOOGLE_SHEET_MIME) THEN Format(TRUE, XLSX_MIME, ".xlsx")
    ELSE Format(TRUE, DOCX_MIME, ".docx")

\* The if/elif/else of export_google_file on meta.get("mimeType"): the export
\* type and the extension, or not ok, where the code raises ValueError.
export_format(mime) ==
    IF mime = PyStr(GOOGLE_DOC_MIME) THEN Format(TRUE, DOCX_MIME, ".docx")
    ELSE IF mime = PyStr(GOOGLE_SHEET_MIME) THEN Format(TRUE, XLSX_MIME, ".xlsx")
    ELSE Format(FALSE, "", "")

\* A request to the Drive API: the method, its fileId and mimeType arguments
\* and the extra HTTP headers the code sets on it.
Request(api, file_id, mime, headers) ==
    [api |-> api, fileId |-> file_id, mimeType |-> mime, headers |-> headers]

\* A files().get request that carries a resource key header.
MetadataRequestWithKey(file_id) ==
    Request("files.get", file_id, "",
            {[name |-> "X-Goog-Drive-Resource-Keys", value |-> file_id \o <<"/", "K">>]})

\* drive.files().get(fileId=file_id, fields="name,mimeType")
MetadataRequest(file_id) == Request("files.get", file_id, "", {})

\* drive.files().export_media(fileId=file_id, mimeType=export_mime)
ExportRequest(file_id, export_mime) ==
    Request("files.export_media", file_id, export_mime, {})

\* What export_google_file returns or raises: the kind, the HttpError, the
\* extension of the file returned, and for a ValueError the type it is about
\* and the fixed part of its message.
Result(kind, e, mime, ext, prefix) ==
    [kind |-> kind, err |-> e, mime |-> mime, ext |-> ext, prefix |-> prefix]

NoResult       == Result("pending", NoHttpError, PyNone, "", "")
Returned(ext)  == Result("ok", NoHttpError, PyNone, ext, "")
RaisedHttp(e)  == Result("HttpError", e, PyNone, "", "")
\* ValueError(f"Unsupported mimeType: {mime}")
RaisedValue(m) == Result("ValueError", NoHttpError, m, "", "Unsupported mimeType: ")
RaisedOther    == Result("Exception", NoHttpError, PyNone, "", "")

\* The worker thread of one asyncio.to_thread(export_google_file, file_id).
Thread(p, svc, mime, fmt, chunks, calls, res) ==
    [pc |-> p, svc |-> svc, mime |-> mime, fmt |-> fmt, chunks |-> chunks,
     calls |-> calls, res |-> res]

IdleThread == Thread("idle", 0, Unset, Format(FALSE, "", ""), 0, {}, NoResult)

\* A thread whose result the handler has taken: only the kind of the result
\* is kept.
JoinedThread(kind) ==
    Thread("joined", 0, Unset, Format(FALSE, "", ""), 0, {},
           Result(kind, NoHttpError, PyNone, "", ""))

(***************************************************************************)
(* Handlers: is_allowed_user, cmd_start, cmd_id, handle_text               *)
(***************************************************************************)
MsgStart      == Msg("Send a link to Google Docs or Google Sheets, I return DOCX/XLSX. /id shows your user_id.")
MsgYourId     == Msg("Your user_id: ")
MsgNoLink     == Msg("No document link found. Send a link to Google Docs/Sheets.")
MsgConverting == Msg("Converting and downloading...")
MsgUnsupported == Msg("The file format is not supported. Only Google Docs and Google Sheets fit.")
MsgGeneric    == Msg("Download/conversion error. Check: the file is shared with the service account email, the link is right, the Drive API is enabled.")

\* describe_value_error on the ValueError of the result res: the test is
\* str(err).startswith("Unsupported mimeType:").
describe_value_error(res) ==
    IF res.prefix = "Unsupported mimeType: " THEN MsgUnsupported
    ELSE [body |-> "Processing error: ", detail |-> res.prefix]

Digits == <<"0", "1", "2", "3", "4", "5", "6", "7", "8", "9">>

\* str(n) of a non-negative integer.
RECURSIVE Str(_)
Str(n) ==
    IF n < 10 THEN <<Digits[n + 1]>>
    ELSE Str(n \div 10) \o <<Digits[(n % 10) + 1]>>

\* is_allowed_user that lets an update without effective_user through.
is_allowed_user_lax(env, user) ==
    LET allowed == Strip(env) IN
    IF allowed = <<>> THEN TRUE
    ELSE user = <<>> \/ Str(user[1]) = allowed

\* is_allowed_user: env is os.environ.get("ALLOWED_USER_ID", ""), user is
\* update.effective_user (<<>> for None, <<id>> otherwise); the truth value
\* of what the code returns.
is_allowed_user(env, user) ==
    LET allowed == Strip(env) IN
    IF allowed = <<>> THEN TRUE
    ELSE user # <<>> /\ Str(user[1]) = allowed

\* A message sent to the chat of the update: ref is the index of the
\* reference it is about (0: none), kind is "text" (reply_text) or "document"
\* (reply_document), arg what is formatted into the text.
Reply(ref, kind, msg, arg) == [ref |-> ref, kind |-> kind, msg |-> msg, arg |-> arg]

Update(handler, user, txt) ==
    [handler |-> handler, user |-> user, message_text |-> txt]

NoUpdate == Update("", <<>>, <<>>)

\* What the handler does after starting the export without awaiting it: it
\* goes on with the next reference.
NotAwaited(i, n) ==
    IF i < n THEN [pc |-> "loop", idx |-> i + 1] ELSE [pc |-> "done", idx |-> i]

\* await asyncio.to_thread(...): the handler is suspended at reference i until
\* the worker thread has returned or raised.
Awaited(i, n) == [pc |-> "await", idx |-> i]

\* The end of one iteration of the for loop over the n file_ids.
LoopStep(i, n) ==
    IF i < n THEN [pc |-> "loop", idx |-> i + 1] ELSE [pc |-> "done", idx |-> i]

(***************************************************************************)
(* Spec: MaxUpdates updates handled concurrently                           *)
(***************************************************************************)
Updates == 1..MaxUpdates

\* Values of ALLOWED_USER_ID: unset, blank, and user 42 with blanks around it.
Envs == {<<>>, <<" ">>, <<" ", "4", "2", " ">>}

\* update.effective_user: None, or the user with that id.
Users == {<<>>, <<42>>, <<7>>}

TextNoLink  == <<" ", "h", "i", " ">>
TextOneLink == <<" ">> \o FragDocA \o FragEdit
TextTwoKey  == FragDocA \o <<" ">> \o FragDocB \o <<"?","r","e","s","o","u","r","c","e","k","e","y","=","K">>

MessageTexts == {TextNoLink, TextOneLink, TextTwoKey}

\* meta.get("mimeType"): a document, a spreadsheet, another type, or no type.
Mimes == {PyStr(GOOGLE_DOC_MIME), PyStr(GOOGLE_SHEET_MIME), PyStr("application/pdf"), PyNone}

\* The HttpErrors the Drive calls of Spec raise: a 403 with a well-formed
\* body, and a 404 whose body is a JSON array.
SampleErrors ==
    {HttpError(403, Content("json", JsonObject(ErrorObject(PyStr("teapot"),
                   ErrorsList(FirstObject(PyStr("insufficientPermissions"))))))),
     HttpError(404, Content("json", JsonOther("array")))}

Init ==
    /\ allowed_user_id \in Envs
    /\ pc = [u \in Updates |-> "new"]
    /\ upd = [u \in Updates |-> NoUpdate]
    /\ text = [u \in Updates |-> <<>>]
    /\ file_ids = [u \in Updates |-> <<>>]
    /\ idx = [u \in Updates |-> 0]
    /\ th = [u \in Updates |-> <<>>]
    /\ replies = [u \in Updates |-> <<>>]
    /\ drive_service = 0
    /\ builds = 0
    /\ PureIdle

Send(u, r) == replies' = [replies EXCEPT ![u] = Append(@, r)]

\* The application routes an update to the handler registered for it.
Route(u) ==
    /\ pc[u] = "new"
    /\ \E user \in Users :
        \E up \in {Update("cmd_start", user, <<>>), Update("cmd_id", user, <<>>)}
                  \cup {Update("handle_text", user, txt) : txt \in MessageTexts} :
            upd' = [upd EXCEPT ![u] = up]
    /\ pc' = [pc EXCEPT ![u] = "routed"]
    /\ UNCHANGED <<allowed_user_id, text, file_ids, idx, th, replies, drive_service, builds>>
    /\ UNCHANGED pureVars

Routed(u, handler) == pc[u] = "routed" /\ upd[u].handler = handler

\* return of a handler whose update is not from the allowed user
Ignore(u) ==
    /\ pc' = [pc EXCEPT ![u] = "ignored"]
    /\ upd' = [upd EXCEPT ![u] = NoUpdate]

\* cmd_start
CmdStart(u) ==
    /\ Routed(u, "cmd_start")
    /\ IF is_allowed_user(allowed_user_id, upd[u].user)
       THEN /\ Send(u, Reply(0, "text", MsgStart, <<>>))
            /\ pc' = [pc EXCEPT ![u] = "done"]
            /\ upd' = [upd EXCEPT ![u] = NoUpdate]
       ELSE /\ Ignore(u)
            /\ UNCHANGED replies
    /\ UNCHANGED <<allowed_user_id, text, file_ids, idx, th, drive_service, builds>>
    /\ UNCHANGED pureVars

\* cmd_id
CmdId(u) ==
    /\ Routed(u, "cmd_id")
    /\ IF is_allowed_user(allowed_user_id, upd[u].user)
       THEN /\ Send(u, Reply(0, "text", MsgYourId,
                             IF upd[u].user # <<>> THEN Str(upd[u].user[1])
                             ELSE <<"u","n","k","n","o","w","n">>))
            /\ pc' = [pc EXCEPT ![u] = "done"]
            /\ upd' = [upd EXCEPT ![u] = NoUpdate]
       ELSE /\ Ignore(u)
            /\ UNCHANGED replies
    /\ UNCHANGED <<allowed_user_id, text, file_ids, idx, th, drive_service, builds>>
    /\ UNCHANGED pureVars

\* handle_text up to the for loop: the access check, extract_file_ids on the
\* stripped text, and the reply when no link is found.
HandleText(u) ==
    /\ Routed(u, "handle_text")
    /\ IF ~is_allowed_user(allowed_user_id, upd[u].user)
       THEN /\ Ignore(u)
            /\ UNCHANGED <<text, file_ids, idx, th, replies>>
       ELSE LET stripped == Strip(upd[u].message_text)
                found == extract_file_ids(stripped)
            IN  /\ upd' = [upd EXCEPT ![u] = NoUpdate]
                /\ text' = [text EXCEPT ![u] = stripped]
                /\ IF found = <<>>
                   THEN /\ Send(u, Reply(0, "text", MsgNoLink, <<>>))
                        /\ pc' = [pc EXCEPT ![u] = "done"]
                        /\ UNCHANGED <<file_ids, idx, th>>
                   ELSE /\ file_ids' = [file_ids EXCEPT ![u] = found]
                        /\ idx' = [idx EXCEPT ![u] = 1]
                        /\ th' = [th EXCEPT ![u] = [i \in 1..Len(found) |-> IdleThread]]
                        /\ pc' = [pc EXCEPT ![u] = "loop"]
                        /\ UNCHANGED replies
    /\ UNCHANGED <<allowed_user_id, drive_service, builds>>
    /\ UNCHANGED pureVars

\* await update.message.reply_text("...") at the top of the try block
SendProgress(u) ==
    /\ pc[u] = "loop"
    /\ Send(u, Reply(idx[u], "text", MsgConverting, <<>>))
    /\ pc' = [pc EXCEPT ![u] = "call"]
    /\ UNCHANGED <<allowed_user_id, upd, text, file_ids, idx, th, drive_service, builds>>
    /\ UNCHANGED pureVars

\* asyncio.to_thread(export_google_file, file_id) starts the worker thread,
\* and the handler awaits it.
StartExport(u) ==
    /\ pc[u] = "call"
    /\ th' = [th EXCEPT ![u][idx[u]].pc = "get_drive_service"]
    /\ LET h == Awaited(idx[u], Len(file_ids[u])) IN
        /\ pc' = [pc EXCEPT ![u] = h.pc]
        /\ idx' = [idx EXCEPT ![u] = h.idx]
    /\ UNCHANGED <<allowed_user_id, upd, text, file_ids, replies, drive_service, builds>>
    /\ UNCHANGED pureVars

\* get_drive_service, the test of the global: return it when it is set.
GetDriveService(u, i) ==
    /\ th[u][i].pc = "get_drive_service"
    /\ IF drive_service # 0
       THEN th' = [th EXCEPT ![u][i].pc = "files_get", ![u][i].svc = drive_service]
       ELSE th' = [th EXCEPT ![u][i].pc = "build"]
    /\ UNCHANGED <<allowed_user_id, pc, upd, text, file_ids, idx, replies, drive_service, builds>>
    /\ UNCHANGED pureVars

\* get_drive_service, after the test found None: build a service, assign it
\* to the global and return it.
BuildDriveService(u, i) ==
    /\ th[u][i].pc = "build"
    /\ builds' = builds + 1
    /\ drive_service' = builds + 1
    /\ th' = [th EXCEPT ![u][i].pc = "files_get", ![u][i].svc = builds + 1]
    /\ UNCHANGED <<allowed_user_id, pc, upd, text, file_ids, idx, replies>>
    /\ UNCHANGED pureVars

\* export_google_file returns or raises: the result is what the awaiting
\* handler gets.  Of the call, the type the metadata call returned and the
\* requests sent (calls) are kept until the handler has taken the result.
Finish(u, i, mime, calls, res) ==
    [th EXCEPT ![u][i] = Thread("returned", 0, mime, Format(FALSE, "", ""), 0, calls, res)]

\* The metadata call returns a mimeType: the if/elif/else on it.
FilesGetReturns(u, i) ==
    /\ th[u][i].pc = "files_get"
    /\ LET calls == th[u][i].calls \cup {MetadataRequest(file_ids[u][i])} IN
       \E mime \in Mimes :
        LET fmt == export_format(mime) IN
        IF fmt.ok
        THEN th' = [th EXCEPT ![u][i].pc = "next_chunk", ![u][i].mime = mime,
                              ![u][i].fmt = fmt, ![u][i].calls = calls]
        ELSE th' = Finish(u, i, mime, calls, RaisedValue(mime))
    /\ UNCHANGED <<allowed_user_id, pc, upd, text, file_ids, idx, replies, drive_service, builds>>
    /\ UNCHANGED pureVars

\* The metadata call raises: an HttpError of the service, or another error.
FilesGetRaises(u, i) ==
    /\ th[u][i].pc = "files_get"
    /\ \E res \in {RaisedHttp(e) : e \in SampleErrors} \cup {RaisedOther} :
        th' = Finish(u, i, Unset, th[u][i].calls \cup {MetadataRequest(file_ids[u][i])}, res)
    /\ UNCHANGED <<allowed_user_id, pc, upd, text, file_ids, idx, replies, drive_service, builds>>
    /\ UNCHANGED pureVars

\* downloader.next_chunk() returns: done, or not yet (at most MaxChunks times).
NextChunkReturns(u, i) ==
    /\ th[u][i].pc = "next_chunk"
    /\ LET calls == th[u][i].calls
                      \cup {ExportRequest(file_ids[u][i], th[u][i].fmt.export_mime)} IN
       \E done \in BOOLEAN :
        IF done
        THEN th' = Finish(u, i, th[u][i].mime, calls, Returned(th[u][i].fmt.ext))
        ELSE /\ th[u][i].chunks < MaxChunks
             /\ th' = [th EXCEPT ![u][i].chunks = @ + 1, ![u][i].calls = calls]
    /\ UNCHANGED <<allowed_user_id, pc, upd, text, file_ids, idx, replies, drive_service, builds>>
    /\ UNCHANGED pureVars

\* downloader.next_chunk() raises.
NextChunkRaises(u, i) ==
    /\ th[u][i].pc = "next_chunk"
    /\ \E res \in {RaisedHttp(e) : e \in SampleErrors} \cup {RaisedOther} :
        th' = Finish(u, i, th[u][i].mime, th[u][i].calls
                             \cup {ExportRequest(file_ids[u][i], th[u][i].fmt.export_mime)}, res)
    /\ UNCHANGED <<allowed_user_id, pc, upd, text, file_ids, idx, replies, drive_service, builds>>
    /\ UNCHANGED pureVars

\* The handler resumes with what the thread of the current reference returned
\* or raised.
Resumes(u, kind) ==
    /\ pc[u] = "await"
    /\ th[u][idx[u]].pc = "returned"
    /\ th[u][idx[u]].res.kind = kind

Continue(u) ==
    LET h == LoopStep(idx[u], Len(file_ids[u])) IN
    /\ pc' = [pc EXCEPT ![u] = h.pc]
    /\ idx' = [idx EXCEPT ![u] = h.idx]
    /\ th' = [th EXCEPT ![u][idx[u]] = JoinedThread(@.res.kind)]

\* await update.message.reply_document(document=bio, filename=filename)
Deliver(u) ==
    /\ Resumes(u, "ok")
    /\ Send(u, Reply(idx[u], "document", Msg(th[u][idx[u]].res.ext), <<>>))
    /\ Continue(u)
    /\ UNCHANGED <<allowed_user_id, upd, text, file_ids, drive_service, builds>>
    /\ UNCHANGED pureVars

\* except HttpError: reply_text(describe_http_error(he)); an exception raised
\* by describe_http_error leaves the except clause and handle_text.
ReportHttpError(u) ==
    /\ Resumes(u, "HttpError")
    /\ LET d == describe_http_error(th[u][idx[u]].res.err) IN
       IF d.exc = ""
       THEN /\ Send(u, Reply(idx[u], "text", d.msg, <<>>))
            /\ Continue(u)
       ELSE /\ pc' = [pc EXCEPT ![u] = "raised"]
            /\ th' = [th EXCEPT ![u][idx[u]] = JoinedThread(@.res.kind)]
            /\ UNCHANGED <<replies, idx>>
    /\ UNCHANGED <<allowed_user_id, upd, text, file_ids, drive_service, builds>>
    /\ UNCHANGED pureVars

\* except ValueError: reply_text(describe_value_error(ve))
ReportValueError(u) ==
    /\ Resumes(u, "ValueError")
    /\ Send(u, Reply(idx[u], "text", describe_value_error(th[u][idx[u]].res), <<>>))
    /\ Continue(u)
    /\ UNCHANGED <<allowed_user_id, upd, text, file_ids, drive_service, builds>>
    /\ UNCHANGED pureVars

\* except Exception: the generic hint
ReportException(u) ==
    /\ Resumes(u, "Exception")
    /\ Send(u, Reply(idx[u], "text", MsgGeneric, <<>>))
    /\ Continue(u)
    /\ UNCHANGED <<allowed_user_id, upd, text, file_ids, drive_service, builds>>
    /\ UNCHANGED pureVars

Next ==
    \E u \in Updates :
        \/ Route(u)
        \/ CmdStart(u)
        \/ CmdId(u)
        \/ HandleText(u)
        \/ SendProgress(u)
        \/ StartExport(u)
        \/ Deliver(u)
        \/ ReportHttpError(u)
        \/ ReportValueError(u)
        \/ ReportException(u)
        \/ \E i \in DOMAIN th[u] :
            \/ GetDriveService(u, i)
            \/ BuildDriveService(u, i)
            \/ FilesGetReturns(u, i)
            \/ FilesGetRaises(u, i)
            \/ NextChunkReturns(u, i)
            \/ NextChunkRaises(u, i)

Spec == Init /\ [][Next]_vars

\* The variables of Spec, which SpecExtract and SpecClassify leave alone.
MainIdle ==
    /\ allowed_user_id = <<>>
    /\ pc = [u \in Updates |-> "done"]
    /\ upd = [u \in Updates |-> NoUpdate]
    /\ text = [u \in Updates |-> <<>>]
    /\ file_ids = [u \in Updates |-> <<>>]
    /\ idx = [u \in Updates |-> 0]
    /\ th = [u \in Updates |-> <<>>]
    /\ replies = [u \in Updates |-> <<>>]
    /\ drive_service = 0
    /\ builds = 0

(***************************************************************************)
(* SpecClassify: describe_http_error applied to every status of Statuses   *)
(* and every body of Contents.                                             *)
(***************************************************************************)
Statuses == {400, 401, 403, 404, 418, 429, 500, 502, 503, 504}

\* A missing reason, a reason that is a JSON array, a reason outside
\* reason_map, and the reasons the Drive API documents for 403 and 400.
Reasons ==
    {PyNone, PyList} \cup
    {PyStr(r) : r \in
        {"notFound", "insufficientPermissions", "insufficientFilePermissions",
         "appNotAuthorizedToFile", "downloadFileRestricted", "fileNotDownloadable",
         "exportSizeLimitExceeded", "cannotDownloadAbusiveFile",
         "userRateLimitExceeded", "rateLimitExceeded", "sharingRateLimitExceeded",
         "quotaExceeded"}}

Messages == {PyNone, PyStr(""), PyStr("teapot")}

ErrorsValues ==
    {NoErrors, ErrorsOther("null"), ErrorsOther("object"), ErrorsEmpty,
     ErrorsList(FirstOther("null")), ErrorsList(FirstOther("string"))}
    \cup {ErrorsList(FirstObject(r)) : r \in Reasons}

Contents ==
    {Content("None", JsonOther("null")), Content("empty", JsonOther("null")),
     Content("invalid", JsonOther("null"))}
    \cup {Content("json", JsonOther(ty)) : ty \in {"array", "string", "number", "null"}}
    \cup {Content("json", JsonObject(e)) :
            e \in {NoError, ErrorOther("string"), ErrorOther("null"), ErrorOther("array")}}
    \cup {Content("json", JsonObject(ErrorObject(m, l))) : m \in Messages, l \in ErrorsValues}

HttpErrors == {HttpError(s, c) : s \in Statuses, c \in Contents}

InitClassify ==
    /\ err \in HttpErrors
    /\ described = Described(Msg(""))
    /\ cpc = "call"
    /\ xtext = <<>>
    /\ extracted = <<>>
    /\ xpc = "off"
    /\ MainIdle

CallDescribe ==
    /\ cpc = "call"
    /\ described' = describe_http_error(err)
    /\ cpc' = "ret"
    /\ UNCHANGED <<err, xtext, extracted, xpc>>
    /\ UNCHANGED mainVars

NextClassify == CallDescribe

SpecClassify == InitClassify /\ [][NextClassify]_vars

(***************************************************************************)
(* SpecExtract: extract_file_ids applied to every text put together from   *)
(* at most MaxFrags fragments.                                             *)
(***************************************************************************)
Frags ==
    {FragDocA, FragDocB, FragSheetA, FragFileA, FragFilePrefix, FragIdA,
     FragIdB, FragKey, FragEdit, FragB, FragSpace}

RECURSIVE Join(_)
Join(fs) == IF fs = <<>> THEN <<>> ELSE Head(fs) \o Join(Tail(fs))

Texts == {Join(fs) : fs \in UNION {[1..n -> Frags] : n \in 0..MaxFrags}}

InitExtract ==
    /\ xtext \in Texts
    /\ extracted = <<>>
    /\ xpc = "call"
    /\ err = <<>>
    /\ described = <<>>
    /\ cpc = "off"
    /\ MainIdle

CallExtract ==
    /\ xpc = "call"
    /\ extracted' = extract_file_ids(xtext)
    /\ xpc' = "ret"
    /\ UNCHANGED <<xtext, err, described, cpc>>
    /\ UNCHANGED mainVars

NextExtract == CallExtract

SpecExtract == InitExtract /\ [][NextExtract]_vars

\* The matches of the four patterns, in the priority order of the claim.
MatchesInPriorityOrder(s) ==
    FindAll(DocPattern, s) \o FindAll(SheetPattern, s)
        \o FindAll(FilePattern, s) \o FindAll(IdPattern, s)

FirstIndex(q, x) == CHOOSE k \in 1..Len(q) : q[k] = x /\ \A j \in 1..(k - 1) : q[j] # x

Range(q) == {q[k] : k \in 1..Len(q)}

\* C4: the result of extract_file_ids holds every identifier matched by the
\* document, spreadsheet, file and id= patterns, each once, in the order of
\* their first occurrence in the concatenation of the matches (patterns in
\* priority order, matches of a pattern from left to right), and is empty
\* when nothing matches.
C4_ExtractDedupOrdered ==
    xpc = "ret" =>
        LET all == MatchesInPriorityOrder(xtext)
        IN  /\ Range(extracted) = Range(all)
            /\ \A a, b \in 1..Len(extracted) : a # b => extracted[a] # extracted[b]
            /\ \A a, b \in 1..Len(extracted) :
                   a < b => FirstIndex(all, extracted[a]) < FirstIndex(all, extracted[b])
            /\ (all = <<>> => extracted = <<>>)

\* A text in which one identifier is matched by two patterns and another one
\* by a pattern of lower priority standing earlier in the text.
C4_Witness ==
    /\ xpc = "ret"
    /\ Len(MatchesInPriorityOrder(xtext)) = 3
    /\ Len(extracted) = 2
    /\ xtext = FragIdB \o FragFileA \o FragIdA
    /\ extracted = <<<<"A">>, <<"B">>>>

(***************************************************************************)
(* Claims on Spec                                                          *)
(***************************************************************************)
Failures == {"HttpError", "ValueError", "Exception"}

Started(u, i) == th[u][i].pc # "idle"

\* The replies of update u about reference i other than the progress message.
TerminalReplies(u, i) ==
    {k \in DOMAIN replies[u] :
        replies[u][k].ref = i /\ replies[u][k] # Reply(i, "text", MsgConverting, <<>>)}

\* C1: once handle_text is over, an export was attempted for every reference
\* extracted from the message, whatever the earlier exports ended with.
C1_EveryReferenceAttempted ==
    \A u \in Updates :
        pc[u] \in {"done", "raised"} => \A i \in DOMAIN th[u] : Started(u, i)

\* C2: for every reference whose export failed and was handled, exactly one
\* message about the failure was sent to the requester.
C2_OneMessagePerFailure ==
    \A u \in Updates : \A i \in DOMAIN th[u] :
        (th[u][i].pc = "joined" /\ th[u][i].res.kind \in Failures)
            => Cardinality(TerminalReplies(u, i)) = 1

\* C3: the Drive service handle is built at most once, and every thread that
\* called get_drive_service holds the handle of the global.
C3_ServiceBuiltOnce ==
    /\ builds <= 1
    /\ \A u \in Updates : \A i \in DOMAIN th[u] :
           th[u][i].svc # 0 => th[u][i].svc = drive_service

\* The matches of a resourcekey= parameter in a text.
ResourceKeys(s) ==
    FindAll(Lit(<<"r","e","s","o","u","r","c","e","k","e","y","=">>), s)

\* A text with exactly one resourcekey= parameter and two distinct document
\* links.
OneKeyTwoDocuments(s) ==
    /\ Len(ResourceKeys(s)) = 1
    /\ Cardinality(Range(FindAll(DocPattern, s))) = 2

\* The header a request for file_id with the access qualifier key carries.
QualifierHeader(file_id, key) ==
    [name |-> "X-Goog-Drive-Resource-Keys", value |-> file_id \o <<"/">> \o key]

\* The requests the export of reference i of update u has sent.
Calls(u, i) == th[u][i].calls

SupportedMimes == {PyStr(GOOGLE_DOC_MIME), PyStr(GOOGLE_SHEET_MIME)}

ExportCalls(u, i) == {r \in Calls(u, i) : r.api = "files.export_media"}

\* C8: an export request is sent only after the metadata request, and only
\* when the metadata call returned the document or the spreadsheet type; for
\* any other type, a missing one included, the call raises the unsupported
\* type error and no export request has been sent for the reference.
C8_ExportOnlyForSupportedTypes ==
    \A u \in Updates : \A i \in DOMAIN th[u] :
        LET t == th[u][i] IN
        /\ ExportCalls(u, i) # {}
               => /\ t.mime \in SupportedMimes
                  /\ MetadataRequest(file_ids[u][i]) \in Calls(u, i)
        /\ t.pc = "next_chunk" => t.mime \in SupportedMimes
        /\ (t.mime # Unset /\ t.mime \notin SupportedMimes)
               => /\ t.pc = "returned"
                  /\ t.res = RaisedValue(t.mime)
                  /\ ExportCalls(u, i) = {}
        /\ t.res.kind = "ValueError"
               => t.res.mime \notin SupportedMimes /\ ExportCalls(u, i) = {}

\* The metadata call returned another type: the export has raised the
\* unsupported type error after the metadata request alone.
C8_Witness ==
    \E u \in Updates : \E i \in DOMAIN th[u] :
        /\ th[u][i].pc = "returned"
        /\ th[u][i].res = RaisedValue(PyStr("application/pdf"))
        /\ Calls(u, i) = {MetadataRequest(file_ids[u][i])}

InFlight(u) == {i \in DOMAIN th[u] : th[u][i].pc \notin {"idle", "joined"}}

\* C9: within one message at most one export is in flight, the export of a
\* reference starts only when every earlier reference has its terminal reply
\* (the file or the error message), and the terminal replies are sent in
\* extraction order, one per reference at most.
C9_SequentialInOrder ==
    \A u \in Updates :
        /\ Cardinality(InFlight(u)) <= 1
        /\ \A i \in DOMAIN th[u] :
               Started(u, i) => \A j \in 1..(i - 1) : TerminalReplies(u, j) # {}
        /\ \A k1, k2 \in DOMAIN replies[u] :
               (/\ k1 < k2
                /\ k1 \in TerminalReplies(u, replies[u][k1].ref)
                /\ k2 \in TerminalReplies(u, replies[u][k2].ref)
                /\ replies[u][k1].ref > 0)
                   => replies[u][k1].ref < replies[u][k2].ref

\* Two messages are handled at once: one has the terminal reply of its first
\* reference and its second export in flight while an export of the other
\* message is in flight too.
C9_Witness ==
    \E u, v \in Updates :
        /\ u # v
        /\ TerminalReplies(u, 1) # {}
        /\ InFlight(u) = {2}
        /\ InFlight(v) # {}

\* The requester identity that ALLOWED_USER_ID configures (<<>>: none).
ConfiguredUser ==
    IF allowed_user_id = <<" ", "4", "2", " ">> THEN <<42>> ELSE <<>>

\* An update that made no reply and no export.
Silent(u) == replies[u] = <<>> /\ th[u] = <<>> /\ file_ids[u] = <<>>

Category(m) ==
    IF m = MsgNotFound THEN "NotFound"
    ELSE IF m = MsgNoAccess THEN "Unauthorized"
    ELSE IF m \in {MsgTooMany, MsgSharingLimit, MsgQuota} THEN "RateLimited"
    ELSE IF m = MsgUnavailable THEN "ServiceUnavailable"
    ELSE IF m = MsgNotShared THEN "Forbidden: not shared"
    ELSE IF m = MsgAppNotAuth THEN "Forbidden: app not authorized"
    ELSE IF m = MsgNoDownload THEN "Forbidden: export disabled"
    ELSE IF m = MsgAbusive THEN "Forbidden: unsafe"
    ELSE IF m = MsgRestricted THEN "Forbidden: access restricted"
    ELSE IF m = MsgTooLarge THEN "TooLarge"
    ELSE IF m = MsgDriveFailed \/ m.body = MsgDriveError("").body THEN "Unknown"
    ELSE "?"

\* The reason rows of the mapping table; sized tells whether the row of
\* exportSizeLimitExceeded belongs to it.
ReasonCategory(r, sized) ==
    IF r \in {"insufficientPermissions", "insufficientFilePermissions"}
    THEN "Forbidden: not shared"
    ELSE IF r = "appNotAuthorizedToFile" THEN "Forbidden: app not authorized"
    ELSE IF r \in {"downloadFileRestricted", "fileNotDownloadable"}
    THEN "Forbidden: export disabled"
    ELSE IF r = "cannotDownloadAbusiveFile" THEN "Forbidden: unsafe"
    ELSE IF r \in {"userRateLimitExceeded", "rateLimitExceeded",
                   "sharingRateLimitExceeded", "quotaExceeded"}
    THEN "RateLimited"
    ELSE IF sized /\ r = "exportSizeLimitExceeded" THEN "TooLarge"
    ELSE "none"

\* The mapping table: status first, then reason; r is "" for no reason.
TableCategory(status, r, sized) ==
    IF status = 404 THEN "NotFound"
    ELSE IF status = 401 THEN "Unauthorized"
    ELSE IF status = 429 THEN "RateLimited"
    ELSE IF status \in {500, 502, 503, 504} THEN "ServiceUnavailable"
    ELSE IF status \in {403, 400} /\ ReasonCategory(r, sized) # "none"
    THEN ReasonCategory(r, sized)
    ELSE IF status = 403 THEN "Forbidden: access restricted"
    ELSE "Unknown"

\* describe_http_error follows the table for the (status, reason, message)
\* its error parses to, the reason being a string or absent.
FollowsTable(sized) ==
    LET p == parse_http_error_reason(err)
        r == IF p.reason.t = "str" THEN p.reason.v ELSE ""
    IN  (cpc = "ret" /\ p.exc = "" /\ p.reason.t # "list")
            => /\ described.exc = ""
               /\ Category(described.msg) = TableCategory(err.status, r, sized)
               /\ Category(described.msg) = "Unknown"
                      => described.msg =
                            IF p.message.t = "str" /\ p.message.v # ""
                            THEN MsgDriveError(p.message.v)
                            ELSE MsgDriveFailed

\* C6 as stated: describe_http_error gives, for every status, reason and
\* message, the category of the mapping table of the specification (status
\* before reason, first match wins), and for Unknown the provider message when
\* there is one and the generic failure message otherwise.
C6_MappingTable == FollowsTable(FALSE)

\* C6 as amended: the same with one more reason row: for status 403 and for
\* status 400 the reason exportSizeLimitExceeded gives the message that the
\* file is too large to export.
C6_MappingTableWithSizeLimit == FollowsTable(TRUE)

\* A 403 with reason exportSizeLimitExceeded was described as too large.
C6_Witness ==
    /\ cpc = "ret"
    /\ err.status = 403
    /\ parse_http_error_reason(err) =
           Parsed(PyStr("exportSizeLimitExceeded"), PyStr("teapot"))
    /\ described = Described(MsgTooLarge)

\* The shapes of the body that carry no reason: absent, empty, no JSON, JSON
\* that is no object, an "error" that is no object, an "errors" list that is
\* empty or whose first element is no object.
Degenerate(c) ==
    \/ c.raw \in {"None", "empty", "invalid"}
    \/ c.payload.t # "object"
    \/ c.payload.error.t \notin {"object", "absent"}
    \/ c.payload.error.errors = ErrorsEmpty
    \/ /\ c.payload.error.errors.t = "array"
       /\ c.payload.error.errors.n > 0
       /\ c.payload.error.errors.first.t # "object"

\* C7: for every degenerate shape of the body, parse_http_error_reason and
\* describe_http_error return without raising, the reason counts as absent,
\* and a status outside the table gets an Unknown message.
C7_GracefulDegradation ==
    (cpc = "ret" /\ Degenerate(err.content)) =>
        /\ parse_http_error_reason(err).exc = ""
        /\ parse_http_error_reason(err).reason = PyNone
        /\ described.exc = ""
        /\ err.status = 418 => Category(described.msg) = "Unknown"
====
